---- MODULE Spec2Model ----
(***************************************************************************)
(* Document-processing pipeline of document-processor:                     *)
(*   DocumentClassifier.classify, DocumentProcessor.process_document_async *)
(*   (src/src/document_processor.py) and the DatabaseManager writes it     *)
(*   calls (src/src/database.py).                                          *)
(*                                                                         *)
(* A text is represented by the sequence of its whitespace-separated       *)
(* words; the regular expressions of the rule table, all of the shape      *)
(* w1\s+w2(\s+w3), are sequences of words; the words are the lower-cased   *)
(* ones classify matches against.  Confidences are kept in hundredths      *)
(* (the column is DECIMAL(3,2)).  Every awaited DatabaseManager call       *)
(* either succeeds or raises; one action models one awaited call together  *)
(* with the straight-line code that follows it.                            *)
(***************************************************************************)
EXTENDS Integers, Sequences, FiniteSets, TLC

\* ------------------------------------------------------------------ bounds
\* longest text (in words) that Init enumerates
MaxTextLen == 4

\* ------------------------------------------------------------ value spaces
Vocab == {"capital", "call", "notice", "distribution", "valuation", "report", "quarterly"}

Docs == {"d1"}
Runs == {"r1"}

None == <<>>
Some(v) == <<v>>

RECURSIVE SeqsUpTo(_, _)
SeqsUpTo(S, n) ==
    IF n = 0 THEN {<<>>}
    ELSE LET shorter == SeqsUpTo(S, n - 1)
         IN  shorter \cup {Append(s, x) : s \in {t \in shorter : Len(t) = n - 1}, x \in S}

Texts == SeqsUpTo(Vocab, MaxTextLen)

\* ----------------------------------------------------- DocumentClassifier
\* the rule table, in declaration (insertion) order; a pattern is a sequence
\* of sets of words, one set per \s+-separated part of the expression
classification_rules ==
    << [doc_type |-> "capital_call",
        patterns |-> << <<{"capital"}, {"call"}>>,
                        <<{"drawdown"}, {"notice"}>>,
                        <<{"call"}, {"notice"}>>,
                        <<{"contribution"}, {"request"}>> >>],
       [doc_type |-> "distribution",
        patterns |-> << <<{"distribution"}, {"notice"}>>,
                        <<{"return"}, {"of"}, {"capital"}>>,
                        <<{"dividend"}, {"distribution"}>>,
                        <<{"cash"}, {"distribution"}>> >>],
       [doc_type |-> "valuation",
        patterns |-> << <<{"valuation"}, {"report"}>>,
                        <<{"fair"}, {"value"}>>,
                        <<{"portfolio"}, {"valuation"}>>,
                        <<{"asset"}, {"valuation"}>> >>],
       [doc_type |-> "quarterly_update",
        patterns |-> << <<{"quarterly"}, {"report"}>>,
                        <<{"quarterly"}, {"update"}>>,
                        <<{"q1", "q2", "q3", "q4"}, {"report"}>>,
                        <<{"quarterly"}, {"statement"}>> >>] >>

\* does pattern p match the words of t starting at position i
MatchesAt(p, t, i) ==
    /\ i + Len(p) - 1 <= Len(t)
    /\ \A k \in 1..Len(p) : t[i + k - 1] \in p[k]

\* len(re.findall(pattern, text_lower)): non-overlapping matches, left to right
RECURSIVE FindallFrom(_, _, _)
FindallFrom(p, t, i) ==
    IF i > Len(t) THEN 0
    ELSE IF MatchesAt(p, t, i) THEN 1 + FindallFrom(p, t, i + Len(p))
    ELSE FindallFrom(p, t, i + 1)

\* bool(re.search(...)): at most one match counted for a pattern
findall_count_search(p, t) == IF FindallFrom(p, t, 1) > 0 THEN 1 ELSE 0

findall_count(p, t) == FindallFrom(p, t, 1)

\* score += matches * 0.25, in hundredths
MatchWeight == 25
ScoreCap == 100
MinConfidence == 30

RECURSIVE SumMatches(_, _, _)
SumMatches(patterns, t, k) ==
    IF k > Len(patterns) THEN 0
    ELSE findall_count(patterns[k], t) * MatchWeight + SumMatches(patterns, t, k + 1)

Min(a, b) == IF a <= b THEN a ELSE b

\* the cap left out
Score_uncapped(rule, t) == SumMatches(rule.patterns, t, 1)

\* scores[doc_type] = min(score, 1.0)
Score(rule, t) == Min(SumMatches(rule.patterns, t, 1), ScoreCap)

\* max(scores, key=scores.get): the first key, in insertion order, whose
\* value is maximal
RECURSIVE BestFrom(_, _, _)
BestFrom(t, k, best) ==
    IF k > Len(classification_rules) THEN best
    ELSE IF Score(classification_rules[k], t) > Score(classification_rules[best], t)
         THEN BestFrom(t, k + 1, k)
         ELSE BestFrom(t, k + 1, best)

\* the last maximal key instead of the first
best_type_last_max(t) ==
    CHOOSE i \in 1..Len(classification_rules) :
        /\ \A j \in 1..Len(classification_rules) :
              Score(classification_rules[j], t) <= Score(classification_rules[i], t)
        /\ \A j \in (i + 1)..Len(classification_rules) :
              Score(classification_rules[j], t) < Score(classification_rules[i], t)

best_type(t) == BestFrom(t, 2, 1)

\* str.lower() on one word; the words of Vocab are lower-case already
lower_word(w) ==
    CASE w = "CAPITAL" -> "capital"
      [] w = "CALL" -> "call"
      [] w = "Notice" -> "notice"
      [] OTHER -> w

\* text_lower = text.lower()
lower(t) == [i \in 1..Len(t) |-> lower_word(t[i])]

\* self.confidence_threshold (0.7, line 28) used as the minimum
classify_confidence_threshold(t) ==
    LET text_lower == lower(t)
        best == classification_rules[best_type(text_lower)]
        best_score == Score(best, text_lower)
    IN  IF best_score >= 70
        THEN [doc_type |-> best.doc_type, confidence |-> best_score]
        ELSE [doc_type |-> "unknown", confidence |-> 0]

\* lines 58-79
classify(t) ==
    LET text_lower == lower(t)
        best == classification_rules[best_type(text_lower)]
        best_score == Score(best, text_lower)
    IN  IF best_score >= MinConfidence
        THEN [doc_type |-> best.doc_type, confidence |-> best_score]
        ELSE [doc_type |-> "unknown", confidence |-> 0]

\* ---------------------------------------------------------- FieldExtractor
\* For field extraction a text is read as the sequence of its lexemes: words
\* or short phrases separated by white space.  The tables give what each
\* regular expression of the source captures in each lexeme; a match that
\* runs from the end of one lexeme into the start of the next is possible
\* for the third fund_id pattern and the third call_number pattern only.
\* Amounts are in hundredths, dates are <<year, month, day>>.
\* group 1 of re.search(self.patterns['fund_id'][k], w, re.IGNORECASE), lines 88-92
fund_id_group(k, w) ==
    CASE k = 3 /\ w = "capital" -> Some("capi")
      [] k = 3 /\ w = "notice" -> Some("noti")
      [] k = 3 /\ w = "distribution" -> Some("distri")
      [] k = 3 /\ w = "valuation" -> Some("valuati")
      [] k = 3 /\ w = "dividend" -> Some("divi")
      [] k = 3 /\ w = "portfolio" -> Some("ortfoli")
      [] k = 3 /\ w = "CAPITAL" -> Some("CAPI")
      [] k = 3 /\ w = "Notice" -> Some("Noti")
      [] k = 1 /\ w = "Fund ID: ABC-III" -> Some("ABC-III")
      [] k = 3 /\ w = "Fund ID: ABC-III" -> Some("Fund I")
      [] k = 3 /\ w = "Fund: ABC-III" -> Some("ABC-III")
      [] k = 3 /\ w = "CAPITAL CALL NOTICE" -> Some("CAPI")
      [] k = 3 /\ w = "capital income" -> Some("capi")
      [] k = 2 /\ w = "Fund: AB12" -> Some("AB12")
      [] OTHER -> None

\* group 1 of re.search(self.patterns['amount'][k], w, re.IGNORECASE), lines 93-97
amount_group(k, w) ==
    CASE k = 1 /\ w = "$500,000" -> Some("500,000")
      [] k = 1 /\ w = "$0" -> Some("0")
      [] k = 1 /\ w = "$," -> Some(",")
      [] k = 2 /\ w = "USD 250000.50" -> Some("250000.50")
      [] k = 3 /\ w = "Amount: 1,500" -> Some("1,500")
      [] k = 1 /\ w = "Call Amount: $500,000" -> Some("500,000")
      [] k = 3 /\ w = "Call Amount: $500,000" -> Some("500,000")
      [] k = 1 /\ w = "Call Amount: $1,500" -> Some("1,500")
      [] k = 3 /\ w = "Call Amount: $1,500" -> Some("1,500")
      [] OTHER -> None

\* group 1 of re.search(self.patterns['lp_id'][k], w, re.IGNORECASE), lines 103-107
lp_id_group(k, w) ==
    CASE k = 1 /\ w = "LP: LP-001" -> Some("LP-001")
      [] k = 3 /\ w = "Investor: INV-7" -> Some("INV-7")
      [] k = 1 /\ w = "LP: LP-7" -> Some("LP-7")
      [] OTHER -> None

\* group 1 of re.search(self.patterns['call_number'][k], w, re.IGNORECASE), lines 108-112
call_number_group(k, w) ==
    CASE k = 1 /\ w = "Call Number: 3" -> Some("3")
      [] k = 1 /\ w = "Call Number: 0" -> Some("0")
      [] k = 3 /\ w = "Drawdown 2" -> Some("2")
      [] k = 1 /\ w = "Call Number: 5" -> Some("5")
      [] OTHER -> None

\* group 1 of re.search(self.patterns['date'][k], w, re.IGNORECASE), lines 98-102,
\* with what lines 134-136 read in it: whether it holds '/' or '-', and its
\* parts re.split(r'[\/\-]', date_str) as numbers with their lengths
date_group(k, w) ==
    CASE k = 1 /\ w = "12/15/2023" -> Some([str |-> "12/15/2023", sep |-> TRUE, parts |-> <<[n |-> 12, len |-> 2], [n |-> 15, len |-> 2], [n |-> 2023, len |-> 4]>>])
      [] k = 1 /\ w = "12/15/23" -> Some([str |-> "12/15/23", sep |-> TRUE, parts |-> <<[n |-> 12, len |-> 2], [n |-> 15, len |-> 2], [n |-> 23, len |-> 2]>>])
      [] k = 1 /\ w = "13/40/2023" -> Some([str |-> "13/40/2023", sep |-> TRUE, parts |-> <<[n |-> 13, len |-> 2], [n |-> 40, len |-> 2], [n |-> 2023, len |-> 4]>>])
      [] k = 2 /\ w = "October 15, 2023" -> Some([str |-> "October 15, 2023", sep |-> FALSE, parts |-> <<>>])
      [] k = 1 /\ w = "2023-10-15" -> Some([str |-> "23-10-15", sep |-> TRUE, parts |-> <<[n |-> 23, len |-> 2], [n |-> 10, len |-> 2], [n |-> 15, len |-> 2]>>])
      [] k = 3 /\ w = "2023-10-15" -> Some([str |-> "2023-10-15", sep |-> TRUE, parts |-> <<[n |-> 2023, len |-> 4], [n |-> 10, len |-> 2], [n |-> 15, len |-> 2]>>])
      [] k = 1 /\ w = "Call Date: 10/15/2023" -> Some([str |-> "10/15/2023", sep |-> TRUE, parts |-> <<[n |-> 10, len |-> 2], [n |-> 15, len |-> 2], [n |-> 2023, len |-> 4]>>])
      [] k = 1 /\ w = "Call Date: 12/15/23" -> Some([str |-> "12/15/23", sep |-> TRUE, parts |-> <<[n |-> 12, len |-> 2], [n |-> 15, len |-> 2], [n |-> 23, len |-> 2]>>])
      [] OTHER -> None

\* the last three to six letters of w when w ends in at least three letters:
\* what [A-Z]{3,6} of the third fund_id pattern takes at the end of w
letter_tail(w) ==
    CASE w = "capital" -> Some("apital")
      [] w = "call" -> Some("call")
      [] w = "notice" -> Some("notice")
      [] w = "distribution" -> Some("bution")
      [] w = "valuation" -> Some("uation")
      [] w = "report" -> Some("report")
      [] w = "quarterly" -> Some("rterly")
      [] w = "dividend" -> Some("vidend")
      [] w = "portfolio" -> Some("tfolio")
      [] w = "CAPITAL" -> Some("APITAL")
      [] w = "CALL" -> Some("CALL")
      [] w = "Notice" -> Some("Notice")
      [] w = "memo" -> Some("memo")
      [] w = "Fund ID: ABC-III" -> Some("III")
      [] w = "Fund: ABC-III" -> Some("III")
      [] w = "CAPITAL CALL NOTICE" -> Some("NOTICE")
      [] w = "capital income" -> Some("income")
      [] OTHER -> None

\* the lexemes where that match starts no later than a match inside w
tail_first(w) ==
    w \in {"call", "notice", "report", "quarterly", "CALL", "Notice", "memo"}

\* the leading run of I, V, X letters of w: what [IVX]+ takes at its start
ivx_head(w) ==
    CASE w = "valuation" -> Some("v")
      [] w = "Investor: INV-7" -> Some("I")
      [] OTHER -> None

\* w ends in 'call' or 'drawdown' (third call_number pattern)
ends_call(w) ==
    w \in {"call", "CALL"}

\* the leading digits of w: what (\d+) takes at its start
lead_digits(w) ==
    CASE w = "12/15/2023" -> Some("12")
      [] w = "12/15/23" -> Some("12")
      [] w = "13/40/2023" -> Some("13")
      [] w = "2023-10-15" -> Some("2023")
      [] OTHER -> None

\* re.search(r'capital\s+income|dividend', w, re.IGNORECASE), line 187
income_match(w) ==
    w \in {"dividend", "capital income"}

\* group 1 of re.search(r'discount\s+rate[\s:]+(\d+\.?\d*)%?', w, re.IGNORECASE),
\* line 204
discount_group(w) ==
    CASE w = "Discount Rate: 8.5%" -> Some("8.5")
      [] OTHER -> None

\* the first element of a non-empty set of positions
FirstIndex(I) == CHOOSE i \in I : \A j \in I : i <= j

\* group 1 of re.search(self.patterns[family][k], w, re.IGNORECASE)
pattern_group(family, k, w) ==
    CASE family = "fund_id" -> fund_id_group(k, w)
      [] family = "amount" -> amount_group(k, w)
      [] family = "date" -> date_group(k, w)
      [] family = "lp_id" -> lp_id_group(k, w)
      [] family = "call_number" -> call_number_group(k, w)

\* re.search over the whole text for a pattern that matches inside one
\* lexeme: the capture in the leftmost lexeme that has one
first_group(family, k, t) ==
    LET I == {i \in 1..Len(t) : pattern_group(family, k, t[i]) # None}
    IN  IF I = {} THEN None ELSE pattern_group(family, k, t[FirstIndex(I)])

\* Decimal(s) in hundredths; None stands for InvalidOperation
Decimal(s) ==
    CASE s = "500000" -> Some(50000000)
      [] s = "0" -> Some(0)
      [] s = "250000.50" -> Some(25000050)
      [] s = "1500" -> Some(150000)
      [] s = "8.5" -> Some(850)
      [] OTHER -> None

\* amount_str.replace(',', '')
remove_commas(s) ==
    CASE s = "500,000" -> "500000"
      [] s = "1,500" -> "1500"
      [] s = "," -> ""
      [] OTHER -> s

\* int(s) for the captured digit strings
int(s) ==
    CASE s = "0" -> 0
      [] s = "2" -> 2
      [] s = "3" -> 3
      [] s = "5" -> 5
      [] s = "12" -> 12
      [] s = "13" -> 13
      [] s = "2023" -> 2023

\* lines 114-124: the first pattern, in declaration order, that matches and
\* whose capture converts; a capture that does not convert is skipped
amount_from(k, t) ==
    LET g == first_group("amount", k, t)
    IN  IF g = None THEN None ELSE Decimal(remove_commas(g[1]))

extract_amount(t) ==
    IF amount_from(1, t) # None THEN amount_from(1, t)
    ELSE IF amount_from(2, t) # None THEN amount_from(2, t)
    ELSE amount_from(3, t)

is_leap(y) == (y % 4 = 0 /\ y % 100 # 0) \/ y % 400 = 0

days_in_month(y, m) ==
    IF m = 2 THEN (IF is_leap(y) THEN 29 ELSE 28)
    ELSE IF m \in {4, 6, 9, 11} THEN 30 ELSE 31

\* a constructor that takes any three numbers
date_unchecked(y, m, d) == Some(<<y, m, d>>)

\* datetime.date(y, m, d); None stands for ValueError
date(y, m, d) ==
    IF y \in 1..9999 /\ m \in 1..12 /\ d \in 1..days_in_month(y, m)
    THEN Some(<<y, m, d>>)
    ELSE None

\* the parts read as day, month, year
date_from_day_first(k, t) ==
    LET g == first_group("date", k, t)
    IN  IF g = None THEN None
        ELSE IF g[1].sep /\ Len(g[1].parts) = 3
             THEN LET parts == g[1].parts
                      year == IF parts[3].len = 2 THEN 2000 + parts[3].n ELSE parts[3].n
                  IN  date(year, parts[2].n, parts[1].n)
             ELSE None

\* lines 132-140 for one capture: month, day, year in this order, a
\* two-digit year prefixed with '20'; nothing is returned for a capture
\* without '/' or '-', or when date() raises
date_from(k, t) ==
    LET g == first_group("date", k, t)
    IN  IF g = None THEN None
        ELSE IF g[1].sep /\ Len(g[1].parts) = 3
             THEN LET parts == g[1].parts
                      year == IF parts[3].len = 2 THEN 2000 + parts[3].n ELSE parts[3].n
                  IN  date(year, parts[1].n, parts[2].n)
             ELSE None

\* lines 126-142
extract_date(t) ==
    IF date_from(1, t) # None THEN date_from(1, t)
    ELSE IF date_from(2, t) # None THEN date_from(2, t)
    ELSE date_from(3, t)

\* the third fund_id pattern at lexeme i: [A-Z]{3,6} is greedy, so the match
\* that runs into the next lexeme is found first when it starts no later
fund_id_at(t, i) ==
    LET inner == fund_id_group(3, t[i])
        span == IF i < Len(t) /\ letter_tail(t[i]) # None /\ ivx_head(t[i + 1]) # None
                THEN Some(letter_tail(t[i])[1] \o " " \o ivx_head(t[i + 1])[1])
                ELSE None
    IN  IF span # None /\ (tail_first(t[i]) \/ inner = None) THEN span ELSE inner

\* lines 144-150; .strip() leaves the captures as they are: none begins or
\* ends with white space
extract_fund_id(t) ==
    IF first_group("fund_id", 1, t) # None THEN first_group("fund_id", 1, t)
    ELSE IF first_group("fund_id", 2, t) # None THEN first_group("fund_id", 2, t)
    ELSE LET I == {i \in 1..Len(t) : fund_id_at(t, i) # None}
         IN  IF I = {} THEN None ELSE fund_id_at(t, FirstIndex(I))

\* lines 152-158
extract_lp_id(t) ==
    IF first_group("lp_id", 1, t) # None THEN first_group("lp_id", 1, t)
    ELSE IF first_group("lp_id", 2, t) # None THEN first_group("lp_id", 2, t)
    ELSE first_group("lp_id", 3, t)

\* the third call_number pattern at lexeme i
call_number_at(t, i) ==
    IF call_number_group(3, t[i]) # None THEN call_number_group(3, t[i])
    ELSE IF i < Len(t) /\ ends_call(t[i]) THEN lead_digits(t[i + 1])
    ELSE None

\* lines 160-169; int() of a run of digits does not raise
extract_call_number(t) ==
    LET g1 == first_group("call_number", 1, t)
        g2 == first_group("call_number", 2, t)
        I == {i \in 1..Len(t) : call_number_at(t, i) # None}
    IN  IF g1 # None THEN Some(int(g1[1]))
        ELSE IF g2 # None THEN Some(int(g2[1]))
        ELSE IF I = {} THEN None ELSE Some(int(call_number_at(t, FirstIndex(I))[1]))

\* date.today(): the day of the run
today == <<2024, 6, 30>>

\* the values Python's `or` takes for false, per kind of field
FalsyNumber == {None, Some(0)}
FalsyString == {None, Some("")}
FalsyDate == {None}

\* the fallback left out: the extractor's result as it is
or_default_absent(x, falsy, default) == x

\* `x or default`
or_default(x, falsy, default) == IF x \in falsy THEN Some(default) ELSE x

\* `x if x is not None else default` for the numbers
extract_capital_call_fields_is_none(t) ==
    [kind |-> "capital_call",
     fund_id |-> or_default(extract_fund_id(t), FalsyString, "FUND-001"),
     call_date |-> or_default(extract_date(t), FalsyDate, today),
     lp_id |-> or_default(extract_lp_id(t), FalsyString, "LP-001"),
     call_amount |-> or_default(extract_amount(t), {None}, 10000000),
     currency |-> "USD",
     call_number |-> or_default(extract_call_number(t), {None}, 1),
     confidence |-> 80]

\* lines 171-181
extract_capital_call_fields(t) ==
    [kind |-> "capital_call",
     fund_id |-> or_default(extract_fund_id(t), FalsyString, "FUND-001"),
     call_date |-> or_default(extract_date(t), FalsyDate, today),
     lp_id |-> or_default(extract_lp_id(t), FalsyString, "LP-001"),
     call_amount |-> or_default(extract_amount(t), FalsyNumber, 10000000),
     currency |-> "USD",
     call_number |-> or_default(extract_call_number(t), FalsyNumber, 1),
     confidence |-> 80]

\* the capital-call amount taken as the fallback
extract_distribution_fields_call_default(t) ==
    [kind |-> "distribution",
     fund_id |-> or_default(extract_fund_id(t), FalsyString, "FUND-001"),
     distribution_date |-> or_default(extract_date(t), FalsyDate, today),
     lp_id |-> or_default(extract_lp_id(t), FalsyString, "LP-001"),
     distribution_amount |-> or_default(extract_amount(t), FalsyNumber, 10000000),
     distribution_type |-> IF \E i \in 1..Len(t) : income_match(t[i]) THEN "CI" ELSE "ROC",
     currency |-> "USD",
     confidence |-> 80]

\* lines 183-198
extract_distribution_fields(t) ==
    [kind |-> "distribution",
     fund_id |-> or_default(extract_fund_id(t), FalsyString, "FUND-001"),
     distribution_date |-> or_default(extract_date(t), FalsyDate, today),
     lp_id |-> or_default(extract_lp_id(t), FalsyString, "LP-001"),
     distribution_amount |-> or_default(extract_amount(t), FalsyNumber, 5000000),
     distribution_type |-> IF \E i \in 1..Len(t) : income_match(t[i]) THEN "CI" ELSE "ROC",
     currency |-> "USD",
     confidence |-> 80]

\* lines 200-216; discount_rate in ten-thousandths (Decimal(...) / 100), None
\* when the pattern does not match
extract_valuation_fields(t) ==
    LET I == {i \in 1..Len(t) : discount_group(t[i]) # None}
    IN  [kind |-> "valuation",
         valuation_date |-> or_default(extract_date(t), FalsyDate, today),
         methodology |-> "DCF Analysis",
         discount_rate |-> IF I = {} THEN None
                           ELSE Decimal(discount_group(t[FirstIndex(I)])[1]),
         multiples |-> [ev_ebitda |-> "12.5x", p_e |-> "15.0x"],
         final_valuation |-> or_default(extract_amount(t), FalsyNumber, 100000000),
         currency |-> "USD",
         confidence |-> 70]

\* ---------------------------------------------------------- DatabaseManager
\* `if document_type and confidence:`: a confidence of 0.0 is falsy
update_document_status_truthy(docs, id, status, document_type, conf) ==
    IF document_type # None /\ document_type # Some("") /\ conf # None /\ conf # Some(0)
    THEN [docs EXCEPT ![id] = [processing_status |-> status,
                               document_type |-> document_type,
                               classification_confidence |-> conf]]
    ELSE [docs EXCEPT ![id].processing_status = status]

\* lines 108-125
\* UPDATE documents SET processing_status = ... [, document_type = ...,
\* classification_confidence = ...] WHERE id = ...
update_document_status(docs, id, status, document_type, conf) ==
    IF document_type # None /\ document_type # Some("") /\ conf # None
    THEN [docs EXCEPT ![id] = [processing_status |-> status,
                               document_type |-> document_type,
                               classification_confidence |-> conf]]
    ELSE [docs EXCEPT ![id].processing_status = status]

\* the status column hard-wired instead of taken from the argument
log_processing_step_fixed_status(logs, id, stage, status, message, execution_time_ms) ==
    Append(logs, [document_id |-> id, stage |-> stage, status |-> "completed",
                  message |-> message, execution_time_ms |-> execution_time_ms])

\* lines 274-283, INSERT INTO processing_logs
log_processing_step(logs, id, stage, status, message, execution_time_ms) ==
    Append(logs, [document_id |-> id, stage |-> stage, status |-> status,
                  message |-> message, execution_time_ms |-> execution_time_ms])

\* the INSERT executed twice
create_capital_call_twice(rows, id, data) ==
    Append(Append(rows, [document_id |-> id, currency |-> data.currency,
                         extraction_confidence |-> data.confidence]),
           [document_id |-> id, currency |-> data.currency,
            extraction_confidence |-> data.confidence])

\* INSERT INTO capital_calls / distributions / valuations
create_capital_call(rows, id, data) ==
    Append(rows, [document_id |-> id, currency |-> data.currency,
                  extraction_confidence |-> data.confidence])

\* INSERT OR REPLACE keyed by document: the row replaces the document's
\* earlier rows
create_distribution_upsert(rows, id, data) ==
    Append(SelectSeq(rows, LAMBDA e : e.document_id # id),
           [document_id |-> id, currency |-> data.currency,
            extraction_confidence |-> data.confidence])

\* lines 173-183, INSERT INTO distributions
create_distribution(rows, id, data) ==
    Append(rows, [document_id |-> id, currency |-> data.currency,
                  extraction_confidence |-> data.confidence])

create_valuation(rows, id, data) ==
    Append(rows, [document_id |-> id, methodology |-> data.methodology,
                  currency |-> data.currency,
                  extraction_confidence |-> data.confidence])

\* -------------------------------------------------------- DocumentProcessor
\* extract_text_from_pdf: the stripped page text, or "" when reading raises
extract_text_from_pdf(words, readable) ==
    IF readable THEN words ELSE <<>>

\* `if text is None`: an empty string passes
text_missing_none_only(t) == FALSE

\* line 262, `not text`
text_missing(t) == t = <<>>

NoTextError == "No text could be extracted from PDF"
StoreError == "database error"

\* the categories for which process_document_async has an extraction branch
ExtractionBranches == {"capital_call", "distribution", "valuation"}

VARIABLES
    files,              \* document id -> words of the stored PDF
    documents,          \* documents table: id -> row
    processing_logs,    \* processing_logs table, in insertion order
    capital_calls,      \* capital_calls table
    distributions,      \* distributions table
    valuations,         \* valuations table
    pc,                 \* run -> position in process_document_async
    document_id,        \* run -> argument document_id
    text,               \* run -> local text
    doc_type,           \* run -> local doc_type (Some/None)
    confidence,         \* run -> local confidence (Some/None)
    extracted_data,     \* run -> local extracted_data (Some/None)
    exc,                \* run -> the exception bound by `except Exception as e`
    calls               \* run -> history of the DatabaseManager calls it made

store == <<documents, processing_logs, capital_calls, distributions, valuations>>
locals == <<text, doc_type, confidence, extracted_data>>
vars == <<files, documents, processing_logs, capital_calls, distributions,
          valuations, pc, document_id, text, doc_type, confidence,
          extracted_data, exc, calls>>

\* the row create_document inserts: status defaults to 'pending', the
\* classification columns are NULL
NewDocument ==
    [processing_status |-> "pending", document_type |-> None,
     classification_confidence |-> None]

\* upload_document: the document row exists and one run is scheduled
Init ==
    /\ files \in [Docs -> Texts]
    /\ documents = [d \in Docs |-> NewDocument]
    /\ processing_logs = <<>>
    /\ capital_calls = <<>>
    /\ distributions = <<>>
    /\ valuations = <<>>
    /\ pc = [r \in Runs |-> "log_start"]
    /\ document_id = [r \in Runs |-> "d1"]
    /\ text = [r \in Runs |-> <<>>]
    /\ doc_type = [r \in Runs |-> None]
    /\ confidence = [r \in Runs |-> None]
    /\ extracted_data = [r \in Runs |-> None]
    /\ exc = [r \in Runs |-> None]
    /\ calls = [r \in Runs |-> <<>>]

Goto(r, label) == pc' = [pc EXCEPT ![r] = label]

Called(r, op, a, b, ok) ==
    calls' = [calls EXCEPT ![r] = Append(@, [op |-> op, a |-> a, b |-> b, ok |-> ok])]

\* an awaited call inside the try block raises: control passes to the
\* except clause with e bound to the exception
RaiseInTry(r, op, a, b, e) ==
    /\ Called(r, op, a, b, FALSE)
    /\ exc' = [exc EXCEPT ![r] = Some(e)]
    /\ Goto(r, "except_status")
    /\ UNCHANGED store

LogStart_outside_try(r) ==
    /\ pc[r] = "log_start"
    /\ UNCHANGED <<files, document_id, locals>>
    /\ \/ /\ processing_logs' = log_processing_step(processing_logs, document_id[r],
                 "start", "processing", <<"Starting document processing">>, None)
          /\ Called(r, "log_processing_step", "start", "processing", TRUE)
          /\ Goto(r, "set_processing")
          /\ UNCHANGED <<documents, capital_calls, distributions, valuations, exc>>
       \/ /\ Called(r, "log_processing_step", "start", "processing", FALSE)
          /\ Goto(r, "raised")
          /\ UNCHANGED <<store, exc>>

\* lines 253-255
LogStart(r) ==
    /\ pc[r] = "log_start"
    /\ UNCHANGED <<files, document_id, locals>>
    /\ \/ /\ processing_logs' = log_processing_step(processing_logs, document_id[r],
                 "start", "processing", <<"Starting document processing">>, None)
          /\ Called(r, "log_processing_step", "start", "processing", TRUE)
          /\ Goto(r, "set_processing")
          /\ UNCHANGED <<documents, capital_calls, distributions, valuations, exc>>
       \/ RaiseInTry(r, "log_processing_step", "start", "processing", StoreError)

\* line 258
SetProcessing(r) ==
    /\ pc[r] = "set_processing"
    /\ UNCHANGED <<files, document_id, locals>>
    /\ \/ /\ documents' = update_document_status(documents, document_id[r],
                 "processing", None, None)
          /\ Called(r, "update_document_status", "processing", "", TRUE)
          /\ Goto(r, "extract_text")
          /\ UNCHANGED <<processing_logs, capital_calls, distributions, valuations, exc>>
       \/ RaiseInTry(r, "update_document_status", "processing", "", StoreError)

\* the text kept in an attribute of the processor that all runs share
ExtractText_shared_text(r) ==
    /\ pc[r] = "extract_text"
    /\ \E readable \in BOOLEAN :
         LET t == extract_text_from_pdf(files[document_id[r]], readable)
         IN  /\ text' = [q \in DOMAIN text |-> t]
             /\ IF text_missing(t)
                THEN /\ exc' = [exc EXCEPT ![r] = Some(NoTextError)]
                     /\ Goto(r, "except_status")
                ELSE /\ Goto(r, "log_text_extraction")
                     /\ UNCHANGED exc
    /\ UNCHANGED <<files, document_id, doc_type, confidence, extracted_data, calls>>
    /\ UNCHANGED store

\* lines 261-263: the text intake; `if not text: raise`
ExtractText(r) ==
    /\ pc[r] = "extract_text"
    /\ \E readable \in BOOLEAN :
         LET t == extract_text_from_pdf(files[document_id[r]], readable)
         IN  /\ text' = [text EXCEPT ![r] = t]
             /\ IF text_missing(t)
                THEN /\ exc' = [exc EXCEPT ![r] = Some(NoTextError)]
                     /\ Goto(r, "except_status")
                ELSE /\ Goto(r, "log_text_extraction")
                     /\ UNCHANGED exc
    /\ UNCHANGED <<files, document_id, doc_type, confidence, extracted_data, calls>>
    /\ UNCHANGED store

\* lines 265-267
LogTextExtraction(r) ==
    /\ pc[r] = "log_text_extraction"
    /\ UNCHANGED <<files, document_id, locals>>
    /\ \/ /\ processing_logs' = log_processing_step(processing_logs, document_id[r],
                 "text_extraction", "completed",
                 <<"Extracted characters", ToString(Len(text[r]))>>, None)
          /\ Called(r, "log_processing_step", "text_extraction", "completed", TRUE)
          /\ Goto(r, "log_classification")
          /\ UNCHANGED <<documents, capital_calls, distributions, valuations, exc>>
       \/ RaiseInTry(r, "log_processing_step", "text_extraction", "completed", StoreError)

\* lines 270-274: classify, then log the result
LogClassification(r) ==
    /\ pc[r] = "log_classification"
    /\ LET c == classify(text[r])
       IN  /\ doc_type' = [doc_type EXCEPT ![r] = Some(c.doc_type)]
           /\ confidence' = [confidence EXCEPT ![r] = Some(c.confidence)]
           /\ \/ /\ processing_logs' = log_processing_step(processing_logs, document_id[r],
                        "classification", "completed",
                        <<"Classified", c.doc_type, ToString(c.confidence)>>, None)
                 /\ Called(r, "log_processing_step", "classification", "completed", TRUE)
                 /\ Goto(r, "set_classification")
                 /\ UNCHANGED <<documents, capital_calls, distributions, valuations, exc>>
              \/ RaiseInTry(r, "log_processing_step", "classification", "completed", StoreError)
    /\ UNCHANGED <<files, document_id, text, extracted_data>>

\* the field_extraction log dropped
AfterExtraction_unlogged(data) == "set_completed"

\* line 297, `if extracted_data:`
AfterExtraction(data) ==
    IF data # None THEN "log_field_extraction" ELSE "set_completed"

\* `else:` in place of `elif doc_type == DocumentType.VALUATION:`
AfterClassification_else_valuation(category) ==
    CASE category = "capital_call" -> "create_capital_call"
      [] category = "distribution" -> "create_distribution"
      [] OTHER -> "create_valuation"

\* the branch taken at lines 282-294 once the classification is stored;
\* extracted_data stays None when no branch applies
AfterClassification(category) ==
    CASE category = "capital_call" -> "create_capital_call"
      [] category = "distribution" -> "create_distribution"
      [] category = "valuation" -> "create_valuation"
      [] OTHER -> AfterExtraction(None)

SetClassification_keeps_status(r) ==
    /\ pc[r] = "set_classification"
    /\ UNCHANGED <<files, document_id, locals>>
    /\ \/ /\ documents' = update_document_status(documents, document_id[r],
                 documents[document_id[r]].processing_status,
                 doc_type[r], confidence[r])
          /\ Called(r, "update_document_status", "processing", doc_type[r][1], TRUE)
          /\ Goto(r, AfterClassification(doc_type[r][1]))
          /\ UNCHANGED <<processing_logs, capital_calls, distributions, valuations, exc>>
       \/ RaiseInTry(r, "update_document_status", "processing", doc_type[r][1], StoreError)

\* lines 277-279, then the dispatch on doc_type
SetClassification(r) ==
    /\ pc[r] = "set_classification"
    /\ UNCHANGED <<files, document_id, locals>>
    /\ \/ /\ documents' = update_document_status(documents, document_id[r],
                 "processing", doc_type[r], confidence[r])
          /\ Called(r, "update_document_status", "processing", doc_type[r][1], TRUE)
          /\ Goto(r, AfterClassification(doc_type[r][1]))
          /\ UNCHANGED <<processing_logs, capital_calls, distributions, valuations, exc>>
       \/ RaiseInTry(r, "update_document_status", "processing", doc_type[r][1], StoreError)

CreateCapitalCall_not_stored(r) ==
    /\ pc[r] = "create_capital_call"
    /\ LET data == extract_capital_call_fields(text[r])
       IN  /\ extracted_data' = [extracted_data EXCEPT ![r] = Some(data)]
           /\ Called(r, "create_capital_call", "capital_calls", "", TRUE)
           /\ Goto(r, AfterExtraction(Some(data)))
           /\ UNCHANGED <<store, exc>>
    /\ UNCHANGED <<files, document_id, text, doc_type, confidence>>

\* lines 283-285
CreateCapitalCall(r) ==
    /\ pc[r] = "create_capital_call"
    /\ LET data == extract_capital_call_fields(text[r])
       IN  /\ extracted_data' = [extracted_data EXCEPT ![r] = Some(data)]
           /\ \/ /\ capital_calls' = create_capital_call(capital_calls, document_id[r], data)
                 /\ Called(r, "create_capital_call", "capital_calls", "", TRUE)
                 /\ Goto(r, AfterExtraction(Some(data)))
                 /\ UNCHANGED <<documents, processing_logs, distributions, valuations, exc>>
              \/ RaiseInTry(r, "create_capital_call", "capital_calls", "", StoreError)
    /\ UNCHANGED <<files, document_id, text, doc_type, confidence>>

\* lines 287-290
CreateDistribution(r) ==
    /\ pc[r] = "create_distribution"
    /\ LET data == extract_distribution_fields(text[r])
       IN  /\ extracted_data' = [extracted_data EXCEPT ![r] = Some(data)]
           /\ \/ /\ distributions' = create_distribution(distributions, document_id[r], data)
                 /\ Called(r, "create_distribution", "distributions", "", TRUE)
                 /\ Goto(r, AfterExtraction(Some(data)))
                 /\ UNCHANGED <<documents, processing_logs, capital_calls, valuations, exc>>
              \/ RaiseInTry(r, "create_distribution", "distributions", "", StoreError)
    /\ UNCHANGED <<files, document_id, text, doc_type, confidence>>

\* lines 292-294
CreateValuation(r) ==
    /\ pc[r] = "create_valuation"
    /\ LET data == extract_valuation_fields(text[r])
       IN  /\ extracted_data' = [extracted_data EXCEPT ![r] = Some(data)]
           /\ \/ /\ valuations' = create_valuation(valuations, document_id[r], data)
                 /\ Called(r, "create_valuation", "valuations", "", TRUE)
                 /\ Goto(r, AfterExtraction(Some(data)))
                 /\ UNCHANGED <<documents, processing_logs, capital_calls, distributions, exc>>
              \/ RaiseInTry(r, "create_valuation", "valuations", "", StoreError)
    /\ UNCHANGED <<files, document_id, text, doc_type, confidence>>

\* lines 297-301 (`if extracted_data:` holds after each extraction branch)
LogFieldExtraction(r) ==
    /\ pc[r] = "log_field_extraction"
    /\ UNCHANGED <<files, document_id, locals>>
    /\ \/ /\ processing_logs' = log_processing_step(processing_logs, document_id[r],
                 "field_extraction", "completed", <<"Extracted fields">>, None)
          /\ Called(r, "log_processing_step", "field_extraction", "completed", TRUE)
          /\ Goto(r, "set_completed")
          /\ UNCHANGED <<documents, capital_calls, distributions, valuations, exc>>
       \/ RaiseInTry(r, "log_processing_step", "field_extraction", "completed", StoreError)

\* line 304
SetCompleted(r) ==
    /\ pc[r] = "set_completed"
    /\ UNCHANGED <<files, document_id, locals>>
    /\ \/ /\ documents' = update_document_status(documents, document_id[r],
                 "completed", None, None)
          /\ Called(r, "update_document_status", "completed", "", TRUE)
          /\ Goto(r, "log_complete")
          /\ UNCHANGED <<processing_logs, capital_calls, distributions, valuations, exc>>
       \/ RaiseInTry(r, "update_document_status", "completed", "", StoreError)

LogComplete_raises_after_write(r) ==
    /\ pc[r] = "log_complete"
    /\ UNCHANGED <<files, document_id, locals>>
    /\ processing_logs' = log_processing_step(processing_logs, document_id[r],
          "complete", "completed",
          <<"Document processing completed successfully">>, Some("processing_time"))
    /\ Called(r, "log_processing_step", "complete", "completed", FALSE)
    /\ exc' = [exc EXCEPT ![r] = Some(StoreError)]
    /\ Goto(r, "except_status")
    /\ UNCHANGED <<documents, capital_calls, distributions, valuations>>

\* lines 306-311: the last statement of the try block
LogComplete(r) ==
    /\ pc[r] = "log_complete"
    /\ UNCHANGED <<files, document_id, locals>>
    /\ \/ /\ processing_logs' = log_processing_step(processing_logs, document_id[r],
                 "complete", "completed",
                 <<"Document processing completed successfully">>, Some("processing_time"))
          /\ Called(r, "log_processing_step", "complete", "completed", TRUE)
          /\ Goto(r, "returned")
          /\ UNCHANGED <<documents, capital_calls, distributions, valuations, exc>>
       \/ RaiseInTry(r, "log_processing_step", "complete", "completed", StoreError)

\* line 315, first statement of the except clause; an exception raised here
\* is not caught by anything and leaves process_document_async
ExceptSetFailed(r) ==
    /\ pc[r] = "except_status"
    /\ UNCHANGED <<files, document_id, locals, exc>>
    /\ \/ /\ documents' = update_document_status(documents, document_id[r],
                 "failed", None, None)
          /\ Called(r, "update_document_status", "failed", "", TRUE)
          /\ Goto(r, "except_log")
          /\ UNCHANGED <<processing_logs, capital_calls, distributions, valuations>>
       \/ /\ Called(r, "update_document_status", "failed", "", FALSE)
          /\ Goto(r, "raised")
          /\ UNCHANGED store

\* lines 316-320
ExceptLogError(r) ==
    /\ pc[r] = "except_log"
    /\ UNCHANGED <<files, document_id, locals, exc>>
    /\ \/ /\ processing_logs' = log_processing_step(processing_logs, document_id[r],
                 "error", "failed", <<"Error during processing", exc[r][1]>>, None)
          /\ Called(r, "log_processing_step", "error", "failed", TRUE)
          /\ Goto(r, "returned")
          /\ UNCHANGED <<documents, capital_calls, distributions, valuations>>
       \/ /\ Called(r, "log_processing_step", "error", "failed", FALSE)
          /\ Goto(r, "raised")
          /\ UNCHANGED store

process_document_async(r) ==
    \/ LogStart(r)
    \/ SetProcessing(r)
    \/ ExtractText(r)
    \/ LogTextExtraction(r)
    \/ LogClassification(r)
    \/ SetClassification(r)
    \/ CreateCapitalCall(r)
    \/ CreateDistribution(r)
    \/ CreateValuation(r)
    \/ LogFieldExtraction(r)
    \/ SetCompleted(r)
    \/ LogComplete(r)
    \/ ExceptSetFailed(r)
    \/ ExceptLogError(r)

Next == \E r \in Runs : process_document_async(r)

Spec == Init /\ [][Next]_vars

\* the run cannot be cancelled and every awaited call returns or raises
FairSpec == Spec /\ \A r \in Runs : WF_vars(process_document_async(r))

TypeOK ==
    /\ \A d \in Docs : documents[d].processing_status \in
           {"pending", "processing", "completed", "failed"}
    /\ \A r \in Runs : pc[r] \in
           {"log_start", "set_processing", "extract_text", "log_text_extraction",
            "log_classification", "set_classification", "create_capital_call",
            "create_distribution", "create_valuation", "log_field_extraction",
            "set_completed", "log_complete", "except_status", "except_log",
            "returned", "raised"}

\* ------------------------------------------------------------ observations
Finished(r) == pc[r] \in {"returned", "raised"}

\* every DatabaseManager call the run has made so far succeeded
AllCallsOk(r) == \A i \in 1..Len(calls[r]) : calls[r][i].ok

IsOk(c) == c.ok
OkCalls(r) == SelectSeq(calls[r], IsOk)

\* rows of one document, in insertion order
DocLogs(d) == SelectSeq(processing_logs, LAMBDA e : e.document_id = d)
DocRecords(d) ==
    SelectSeq(capital_calls, LAMBDA e : e.document_id = d)
    \o SelectSeq(distributions, LAMBDA e : e.document_id = d)
    \o SelectSeq(valuations, LAMBDA e : e.document_id = d)

StagesOf(logs) == [i \in 1..Len(logs) |-> logs[i].stage]
CountStage(logs, stage) == Cardinality({i \in 1..Len(logs) : logs[i].stage = stage})

CreateOps == {"create_capital_call", "create_distribution", "create_valuation"}
CreateCalls(r) == {i \in 1..Len(calls[r]) : calls[r][i].op \in CreateOps}

\* the text intake of run r has returned
IntakeDone(r) ==
    /\ Len(calls[r]) >= 2
    /\ calls[r][1].ok /\ calls[r][2].ok
    /\ pc[r] # "extract_text"

\* the first call of run r that raised, 0 if none
FirstFailed(r) ==
    IF AllCallsOk(r) THEN 0
    ELSE CHOOSE i \in 1..Len(calls[r]) :
            /\ ~calls[r][i].ok
            /\ \A j \in 1..(i - 1) : calls[r][j].ok

\* the exception caught by the except clause came from steps 2-6: the text
\* intake, or a call from the text_extraction log up to the completed write
Steps2to6 ==
    {<<"log_processing_step", "text_extraction">>,
     <<"log_processing_step", "classification">>,
     <<"log_processing_step", "field_extraction">>,
     <<"update_document_status", "completed">>,
     <<"create_capital_call", "capital_calls">>,
     <<"create_distribution", "distributions">>,
     <<"create_valuation", "valuations">>}

RaisedInSteps2to6(r) ==
    /\ exc[r] # None
    /\ \/ exc[r] = Some(NoTextError)
       \/ /\ FirstFailed(r) > 2
          /\ LET c == calls[r][FirstFailed(r)]
             IN  \/ <<c.op, c.a>> \in Steps2to6
                 \/ c.op = "update_document_status" /\ c.b # ""

\* the calls made after the exception was caught are the handler's own
HandlerCallsOnly(r, from) ==
    /\ Len(calls[r]) - from <= 2
    /\ \A i \in (from + 1)..Len(calls[r]) :
          \/ i = from + 1 /\ calls[r][i].op = "update_document_status" /\ calls[r][i].a = "failed"
          \/ i = from + 2 /\ calls[r][i].op = "log_processing_step" /\ calls[r][i].a = "error"

NoRetry(r) ==
    IF exc[r] = Some(NoTextError)
    THEN HandlerCallsOnly(r, 2)
    ELSE HandlerCallsOnly(r, FirstFailed(r))

\* ------------------------------------------------------------------ claims

\* C1: within one run, the stored status never leaves completed or failed
\* once the run has written it, even when the final 'complete' log write
\* raises.
C1_TerminalAbsorbing ==
    [][\A d \in Docs :
          documents[d].processing_status \in {"completed", "failed"}
          => documents'[d].processing_status = documents[d].processing_status]_vars

\* C2: when a step from the text intake up to the completed write raises,
\* the finished run has set the status to failed, has appended exactly one
\* entry of stage 'error' and status 'failed' that carries the exception's
\* description, and has made no further call of the try block.
C2_FailureHandled ==
    \A r \in Runs :
        (Finished(r) /\ RaisedInSteps2to6(r)) =>
            LET logs == DocLogs(document_id[r])
            IN  /\ documents[document_id[r]].processing_status = "failed"
                /\ CountStage(logs, "error") = 1
                /\ \A i \in 1..Len(logs) :
                      logs[i].stage = "error" =>
                          /\ logs[i].status = "failed"
                          /\ logs[i].message = <<"Error during processing", exc[r][1]>>
                /\ NoRetry(r)

\* C3: process_document_async never lets an exception escape to its caller.
C3_NeverPropagates ==
    \A r \in Runs : pc[r] # "raised"

\* C4: a run that has ended has left the status completed or failed, never
\* processing (or pending).
C4_EndsTerminal ==
    \A r \in Runs :
        Finished(r) =>
            documents[document_id[r]].processing_status \in {"completed", "failed"}

SuccessfulRun(r) == pc[r] = "returned" /\ AllCallsOk(r) /\ doc_type[r] # None

CreateOpOf(category) ==
    CASE category = "capital_call" -> <<"create_capital_call", "capital_calls">>
      [] category = "distribution" -> <<"create_distribution", "distributions">>
      [] category = "valuation" -> <<"create_valuation", "valuations">>

FiveStages == <<"start", "text_extraction", "classification", "field_extraction", "complete">>

\* C6: a run classified capital_call, distribution or valuation whose store
\* calls all succeed makes exactly these calls, in this order: log start,
\* status processing, log text_extraction, log classification, classification
\* write, record write, log field_extraction, status completed, log complete.
C6_CallOrder ==
    \A r \in Runs :
        (SuccessfulRun(r) /\ doc_type[r][1] \in ExtractionBranches) =>
            /\ [i \in 1..Len(calls[r]) |-> <<calls[r][i].op, calls[r][i].a>>] =
                  << <<"log_processing_step", "start">>,
                     <<"update_document_status", "processing">>,
                     <<"log_processing_step", "text_extraction">>,
                     <<"log_processing_step", "classification">>,
                     <<"update_document_status", "processing">>,
                     CreateOpOf(doc_type[r][1]),
                     <<"log_processing_step", "field_extraction">>,
                     <<"update_document_status", "completed">>,
                     <<"log_processing_step", "complete">> >>
            /\ calls[r][2].b = "" /\ calls[r][5].b = doc_type[r][1]
            /\ StagesOf(DocLogs(document_id[r])) = FiveStages
            /\ Len(DocRecords(document_id[r])) = 1

C6_Witness ==
    \E r \in Runs : SuccessfulRun(r) /\ doc_type[r] = Some("valuation")

\* C7 as stated: the five entries of a successful capital-call run all have
\* status 'completed'.
C7_AllCompleted ==
    \A r \in Runs :
        (SuccessfulRun(r) /\ doc_type[r] = Some("capital_call")) =>
            LET logs == DocLogs(document_id[r])
            IN  /\ StagesOf(logs) = FiveStages
                /\ \A i \in 1..Len(logs) : logs[i].status = "completed"

\* C7 amended: of the five entries of a successful capital-call run, 'start'
\* has status 'processing' and the other four have status 'completed'.
C7_StartProcessingRestCompleted ==
    \A r \in Runs :
        (SuccessfulRun(r) /\ doc_type[r] = Some("capital_call")) =>
            LET logs == DocLogs(document_id[r])
            IN  /\ StagesOf(logs) = FiveStages
                /\ logs[1].status = "processing"
                /\ \A i \in 2..Len(logs) : logs[i].status = "completed"

C7_Witness ==
    \E r \in Runs :
        /\ SuccessfulRun(r) /\ doc_type[r] = Some("capital_call")
        /\ Len(capital_calls) = 1

\* C8: when classify returned quarterly_update or unknown the run calls no
\* create_*, sets no extracted_data, stores no record and writes no
\* field_extraction entry; with its store calls succeeding it writes no
\* error entry and ends completed.
C8_SkipExtraction ==
    \A r \in Runs :
        (doc_type[r] # None /\ doc_type[r][1] \in {"quarterly_update", "unknown"}) =>
            LET d == document_id[r]
                logs == DocLogs(d)
            IN  /\ CreateCalls(r) = {}
                /\ extracted_data[r] = None
                /\ DocRecords(d) = <<>>
                /\ CountStage(logs, "field_extraction") = 0
                /\ (Finished(r) /\ AllCallsOk(r)) =>
                      /\ pc[r] = "returned"
                      /\ documents[d].processing_status = "completed"
                      /\ StagesOf(logs) = <<"start", "text_extraction", "classification", "complete">>

\* a below-threshold text (one match, score 0.25) has run to completion
C8_Witness ==
    \E r \in Runs :
        /\ SuccessfulRun(r) /\ doc_type[r] = Some("unknown")
        /\ Score(classification_rules[best_type(text[r])], text[r]) = MatchWeight
        /\ documents[document_id[r]].processing_status = "completed"

\* C9: a run calls at most one of create_capital_call, create_distribution,
\* create_valuation, at most once, and at most one record is stored,
\* whether the run ends completed or failed.
C9_AtMostOneRecord ==
    \A r \in Runs :
        /\ Cardinality(CreateCalls(r)) <= 1
        /\ Len(DocRecords(document_id[r])) <= 1
        /\ Len(DocRecords(document_id[r])) =
              Cardinality({i \in CreateCalls(r) : calls[r][i].ok})

\* a run that failed after its record was stored
C9_Witness ==
    \E r \in Runs :
        /\ Finished(r)
        /\ documents[document_id[r]].processing_status = "failed"
        /\ Len(DocRecords(document_id[r])) = 1

ClassificationCalls(r) ==
    {i \in 1..Len(calls[r]) : calls[r][i].op = "update_document_status" /\ calls[r][i].b # ""}

ClassificationStored(r) == \E i \in ClassificationCalls(r) : calls[r][i].ok

\* C10: a run writes category and confidence at most once, and exactly once
\* when it gets past the classification stage; from that write on the
\* Document holds the pair classify returned, (unknown, 0.0) included, through
\* the later completed or failed write; before it the columns are NULL.
C10_ClassificationOnce ==
    \A r \in Runs :
        LET row == documents[document_id[r]]
            c == classify(text[r])
        IN  /\ Cardinality(ClassificationCalls(r)) <= 1
            /\ pc[r] \in {"create_capital_call", "create_distribution", "create_valuation",
                          "log_field_extraction", "set_completed", "log_complete"}
                  => ClassificationStored(r)
            /\ (Finished(r) /\ AllCallsOk(r) /\ text[r] # <<>>) => ClassificationStored(r)
            /\ ClassificationStored(r) =>
                  /\ row.document_type = Some(c.doc_type)
                  /\ row.classification_confidence = Some(c.confidence)
            /\ ~ClassificationStored(r) =>
                  /\ row.document_type = None
                  /\ row.classification_confidence = None

\* (unknown, 0.0) was stored and the run then ended failed
C10_Witness ==
    \E r \in Runs :
        /\ Finished(r) /\ ClassificationStored(r)
        /\ documents[document_id[r]].processing_status = "failed"
        /\ documents[document_id[r]].document_type = Some("unknown")
        /\ documents[document_id[r]].classification_confidence = Some(0)

\* C11: a run that fails in the extraction write, after its classification
\* write succeeded, ends with status failed, keeps the category and
\* confidence it wrote, has stored no record, and the three entries logged
\* before the failure are still the first three of the log.
C11_NoRollback ==
    \A r \in Runs :
        (Finished(r) /\ ClassificationStored(r) /\ FirstFailed(r) \in CreateCalls(r)) =>
            LET d == document_id[r]
                logs == DocLogs(d)
                c == classify(text[r])
            IN  /\ documents[d].processing_status = "failed"
                /\ documents[d].document_type = Some(c.doc_type)
                /\ documents[d].classification_confidence = Some(c.confidence)
                /\ DocRecords(d) = <<>>
                /\ Len(logs) >= 3
                /\ SubSeq(StagesOf(logs), 1, 3) = <<"start", "text_extraction", "classification">>

\* ------------------------------------------------- reprocessing (main.py)
\* run identifiers: "r1" is the run upload_document schedules for "d1",
\* "r2" is scheduled by a reprocess request (or by the upload of "d2")
RerunRuns == {"r1", "r2"}

\* the texts of the documents that are run more than once or side by side
RerunTexts ==
    {<<"capital", "call", "notice">>,
     <<"distribution", "notice", "distribution", "notice">>,
     <<"valuation", "report", "valuation", "report">>,
     <<"call", "notice">>}

\* one uploaded document with its run scheduled; no reprocess request yet
InitReprocess ==
    /\ files \in [Docs -> RerunTexts]
    /\ documents = [d \in Docs |-> NewDocument]
    /\ processing_logs = <<>>
    /\ capital_calls = <<>>
    /\ distributions = <<>>
    /\ valuations = <<>>
    /\ pc = [r \in RerunRuns |-> IF r = "r1" THEN "log_start" ELSE "idle"]
    /\ document_id = [r \in RerunRuns |-> "d1"]
    /\ text = [r \in RerunRuns |-> <<>>]
    /\ doc_type = [r \in RerunRuns |-> None]
    /\ confidence = [r \in RerunRuns |-> None]
    /\ extracted_data = [r \in RerunRuns |-> None]
    /\ exc = [r \in RerunRuns |-> None]
    /\ calls = [r \in RerunRuns |-> <<>>]

\* the request puts the document back to 'pending'
reprocess_document_to_pending(d) ==
    /\ d \in DOMAIN documents
    /\ \E r \in DOMAIN pc :
          /\ pc[r] = "idle"
          /\ documents' = update_document_status(documents, d, "pending", None, None)
          /\ pc' = [pc EXCEPT ![r] = "log_start"]
          /\ document_id' = [document_id EXCEPT ![r] = d]
    /\ UNCHANGED <<files, processing_logs, capital_calls, distributions, valuations,
                   locals, exc, calls>>

\* POST /documents/{id}/reprocess, main.py lines 140-157: the status is set
\* to processing and a new run of process_document_async is scheduled,
\* whatever the state of the document and of its earlier runs.  (When the
\* status write raises, the request fails and nothing changes.)
reprocess_document(d) ==
    /\ d \in DOMAIN documents
    /\ \E r \in DOMAIN pc :
          /\ pc[r] = "idle"
          /\ documents' = update_document_status(documents, d, "processing", None, None)
          /\ pc' = [pc EXCEPT ![r] = "log_start"]
          /\ document_id' = [document_id EXCEPT ![r] = d]
    /\ UNCHANGED <<files, processing_logs, capital_calls, distributions, valuations,
                   locals, exc, calls>>

NextReprocess ==
    \/ \E r \in DOMAIN pc : process_document_async(r)
    \/ \E d \in DOMAIN documents : reprocess_document(d)

SpecReprocess == InitReprocess /\ [][NextReprocess]_vars

\* ----------------------------------------------------- two documents
TwoDocs == {"d1", "d2"}

\* the files of the two documents: "d1" is a capital call, "d2" a
\* distribution or a valuation
TwoDocsFiles ==
    {f \in [TwoDocs -> RerunTexts] :
        /\ f["d1"] = <<"capital", "call", "notice">>
        /\ f["d2"] \in {<<"distribution", "notice", "distribution", "notice">>,
                        <<"valuation", "report", "valuation", "report">>}}

\* two uploaded documents, each with its own run scheduled
InitTwoDocs ==
    /\ files \in TwoDocsFiles
    /\ documents = [d \in TwoDocs |-> NewDocument]
    /\ processing_logs = <<>>
    /\ capital_calls = <<>>
    /\ distributions = <<>>
    /\ valuations = <<>>
    /\ pc = [r \in RerunRuns |-> "log_start"]
    /\ document_id = [r \in RerunRuns |-> IF r = "r1" THEN "d1" ELSE "d2"]
    /\ text = [r \in RerunRuns |-> <<>>]
    /\ doc_type = [r \in RerunRuns |-> None]
    /\ confidence = [r \in RerunRuns |-> None]
    /\ extracted_data = [r \in RerunRuns |-> None]
    /\ exc = [r \in RerunRuns |-> None]
    /\ calls = [r \in RerunRuns |-> <<>>]

NextTwoDocs == \E r \in DOMAIN pc : process_document_async(r)

SpecTwoDocs == InitTwoDocs /\ [][NextTwoDocs]_vars

\* ------------------------------------------------------------ observations
RECURSIVE SumOver(_, _)
SumOver(S, f) ==
    IF S = {} THEN 0
    ELSE LET x == CHOOSE y \in S : TRUE
         IN  f[x] + SumOver(S \ {x}, f)

\* number of calls of run r, among the operations ops, that succeeded
OkCount(r, ops) ==
    Cardinality({i \in 1..Len(calls[r]) : calls[r][i].ok /\ calls[r][i].op \in ops})

TotalOk(ops) == SumOver(DOMAIN pc, [r \in DOMAIN pc |-> OkCount(r, ops)])

IsPrefix(s, t) == Len(s) <= Len(t) /\ SubSeq(t, 1, Len(s)) = s

Started(r) == pc[r] # "idle"

ExtractableSuccess(r) == SuccessfulRun(r) /\ doc_type[r][1] \in ExtractionBranches

\* C12: runs of the same document only append: the records and log entries
\* of "d1" are those written by all its runs together, earlier rows are never
\* replaced, changed or removed, and once its n started runs have all
\* succeeded on an extractable text it has n records and 5n log entries.
C12_RerunAppends ==
    /\ [](/\ Len(DocRecords("d1")) = TotalOk(CreateOps)
          /\ Len(DocLogs("d1")) = TotalOk({"log_processing_step"})
          /\ (\A r \in DOMAIN pc : Started(r) => ExtractableSuccess(r)) =>
                LET n == Cardinality({r \in DOMAIN pc : Started(r)})
                IN  /\ Len(DocRecords("d1")) = n
                    /\ Len(DocLogs("d1")) = 5 * n)
    /\ [][/\ IsPrefix(processing_logs, processing_logs')
          /\ IsPrefix(capital_calls, capital_calls')
          /\ IsPrefix(distributions, distributions')
          /\ IsPrefix(valuations, valuations')]_vars

\* the upload run and the reprocess run have both succeeded
C12_Witness ==
    /\ \A r \in DOMAIN pc : ExtractableSuccess(r)
    /\ Cardinality(DOMAIN pc) = 2
    /\ Len(distributions) = 2
    /\ Len(processing_logs) = 10

\* C13 as stated: a document whose stored status is completed or failed
\* never returns to processing, whatever uploads, runs and reprocess
\* requests follow.
C13_Monotonic ==
    [][\A d \in DOMAIN documents :
          documents[d].processing_status \in {"completed", "failed"}
          => documents'[d].processing_status # "processing"]_vars

\* C13 amended: the status never returns to pending, and it returns from
\* completed or failed to processing only once a reprocess request has been
\* made for the document.
C13_ReturnsOnlyByReprocess ==
    [][\A d \in DOMAIN documents :
          /\ documents[d].processing_status # "pending"
                => documents'[d].processing_status # "pending"
          /\ (/\ documents[d].processing_status \in {"completed", "failed"}
              /\ documents'[d].processing_status = "processing")
                => \E r \in DOMAIN pc :
                      r # "r1" /\ pc'[r] # "idle" /\ document_id'[r] = d]_vars

\* the first run ended completed or failed and a reprocess request has put
\* the document back to processing
C13_Witness ==
    /\ Finished("r1")
    /\ \E i \in 1..Len(calls["r1"]) :
          /\ calls["r1"][i].ok
          /\ calls["r1"][i].op = "update_document_status"
          /\ calls["r1"][i].a \in {"completed", "failed"}
    /\ pc["r2"] = "log_start"
    /\ documents["d1"].processing_status = "processing"


\* the status the ok status writes of run r leave behind
LastStatusOf(r) ==
    LET W == {i \in 1..Len(calls[r]) :
                 calls[r][i].ok /\ calls[r][i].op = "update_document_status"}
    IN  IF W = {} THEN "pending"
        ELSE calls[r][CHOOSE i \in W : \A j \in W : j <= i].a

OkLogStages(r) ==
    LET L == SelectSeq(calls[r], LAMBDA c : c.ok /\ c.op = "log_processing_step")
    IN  [i \in 1..Len(L) |-> L[i].a]

\* C14: with one run on each of two documents, interleaved in any order,
\* every step of a run leaves the other document's row, log entries and
\* records as they were, and each document's status, category, confidence,
\* log and records are determined by its own file and the calls of its own
\* run, as they are when the run is alone.
C14_Independent ==
    /\ [](\A r \in DOMAIN pc :
            LET d == document_id[r]
                c == classify(files[d])
            IN  /\ documents[d].processing_status = LastStatusOf(r)
                /\ documents[d].document_type =
                      IF ClassificationStored(r) THEN Some(c.doc_type) ELSE None
                /\ documents[d].classification_confidence =
                      IF ClassificationStored(r) THEN Some(c.confidence) ELSE None
                /\ StagesOf(DocLogs(d)) = OkLogStages(r)
                /\ Len(DocRecords(d)) = OkCount(r, CreateOps)
                /\ \A i \in CreateCalls(r) :
                      calls[r][i].op = CreateOpOf(c.doc_type)[1])
    /\ [][\A r \in DOMAIN pc : \A d \in DOMAIN documents :
            (pc'[r] # pc[r] /\ d # document_id[r]) =>
                /\ documents'[d] = documents[d]
                /\ DocLogs(d)' = DocLogs(d)
                /\ DocRecords(d)' = DocRecords(d)]_vars

\* both runs are over with different outcomes: "d1" completed as a capital
\* call with its record, "d2" failed at the text intake (unreadable file)
C14_Witness ==
    /\ Cardinality(DOMAIN documents) = 2
    /\ SuccessfulRun("r1") /\ pc["r2"] = "returned"
    /\ documents["d1"].processing_status = "completed"
    /\ documents["d1"].document_type = Some("capital_call")
    /\ Len(DocRecords("d1")) = 1
    /\ documents["d2"].processing_status = "failed"
    /\ documents["d2"].document_type = None
    /\ DocRecords("d2") = <<>>
    /\ Len(DocLogs("d2")) = 2


\* ------------------------------------------------- classify on its own
\* the texts classify is applied to: up to MaxChunks phrases, in any order
MaxChunks == 4

ClassifyChunks ==
    { <<"capital", "call", "notice">>, <<"CAPITAL", "CALL">>, <<"Notice">>,
      <<"dividend", "distribution", "notice">>,
      <<"portfolio", "valuation", "report">>, <<"quarterly", "report">> }

RECURSIVE ChunkTexts(_)
ChunkTexts(n) ==
    IF n = 0 THEN {<<>>}
    ELSE LET shorter == ChunkTexts(n - 1)
         IN  shorter \cup {t \o c : t \in shorter, c \in ClassifyChunks}

ClassifyTexts == ChunkTexts(MaxChunks)

InitClassify ==
    /\ files \in [Docs -> ClassifyTexts]
    /\ documents = [d \in Docs |-> NewDocument]
    /\ processing_logs = <<>>
    /\ capital_calls = <<>>
    /\ distributions = <<>>
    /\ valuations = <<>>
    /\ pc = [r \in Runs |-> "classify"]
    /\ document_id = [r \in Runs |-> "d1"]
    /\ text = [r \in Runs |-> <<>>]
    /\ doc_type = [r \in Runs |-> None]
    /\ confidence = [r \in Runs |-> None]
    /\ extracted_data = [r \in Runs |-> None]
    /\ exc = [r \in Runs |-> None]
    /\ calls = [r \in Runs |-> <<>>]

Classify_best_score(r) ==
    /\ pc[r] = "classify"
    /\ LET t == files[document_id[r]]
           c == classify(t)
           best == classification_rules[best_type(lower(t))]
       IN  /\ text' = [text EXCEPT ![r] = t]
           /\ doc_type' = [doc_type EXCEPT ![r] = Some(c.doc_type)]
           /\ confidence' = [confidence EXCEPT ![r] = Some(Score(best, lower(t)))]
    /\ Goto(r, "classified")
    /\ UNCHANGED <<files, document_id, extracted_data, exc, calls>>
    /\ UNCHANGED store

\* doc_type, confidence = await classifier.classify(text)
Classify(r) ==
    /\ pc[r] = "classify"
    /\ LET t == files[document_id[r]]
           c == classify(t)
       IN  /\ text' = [text EXCEPT ![r] = t]
           /\ doc_type' = [doc_type EXCEPT ![r] = Some(c.doc_type)]
           /\ confidence' = [confidence EXCEPT ![r] = Some(c.confidence)]
    /\ Goto(r, "classified")
    /\ UNCHANGED <<files, document_id, extracted_data, exc, calls>>
    /\ UNCHANGED store

NextClassify == \E r \in Runs : Classify(r)

SpecClassify == InitClassify /\ [][NextClassify]_vars

\* ------------------------------------------------------------ observations
\* the positions of text_lower where pattern p matches
MatchPositions(p, text_lower) ==
    {i \in 1..Len(text_lower) : MatchesAt(p, text_lower, i)}

\* the total number of matches of the patterns of rule k
TotalMatches(k, text_lower) ==
    LET P == classification_rules[k].patterns
    IN  SumOver(DOMAIN P, [j \in DOMAIN P |-> Cardinality(MatchPositions(P[j], text_lower))])

RuleIds == DOMAIN classification_rules

\* min(1.0, 0.25 x matches), in hundredths
SpecScore(k, text_lower) ==
    LET n == TotalMatches(k, text_lower)
    IN  IF 25 * n < 100 THEN 25 * n ELSE 100

MaxSpecScore(text_lower) ==
    LET S == {SpecScore(k, text_lower) : k \in RuleIds}
    IN  CHOOSE m \in S : \A x \in S : x <= m

RuleOf(category) == CHOOSE k \in RuleIds : classification_rules[k].doc_type = category

Classified(r) == pc[r] = "classified"

\* C15: classify returns the selected category with its score exactly when
\* that score is at least 0.3 and (unknown, 0.0) otherwise; text matching no
\* pattern gives (unknown, 0.0); a category other than unknown comes with a
\* confidence of at least 0.3.
C15_Threshold ==
    \A r \in Runs : Classified(r) =>
        LET tl == lower(text[r])
            m == MaxSpecScore(tl)
            category == doc_type[r][1]
        IN  /\ IF m >= 30
               THEN /\ category # "unknown"
                    /\ confidence[r] = Some(m)
                    /\ SpecScore(RuleOf(category), tl) = m
               ELSE category = "unknown" /\ confidence[r] = Some(0)
            /\ (\A k \in RuleIds : TotalMatches(k, tl) = 0) =>
                  (category = "unknown" /\ confidence[r] = Some(0))
            /\ category # "unknown" => confidence[r][1] >= 30

\* a text with two matches is returned with its category and 0.5
C15_Witness ==
    /\ Classified("r1")
    /\ MaxSpecScore(lower(text["r1"])) = 50
    /\ doc_type["r1"] = Some("distribution")
    /\ confidence["r1"] = Some(50)

\* C16: the score of every category is min(1.0, 0.25 x the total number of
\* matches of its patterns in the lower-cased text), hence within [0, 1].
C16_ScoreFormula ==
    \A r \in Runs : Classified(r) =>
        LET tl == lower(text[r])
        IN  /\ \A k \in RuleIds :
                  /\ Score(classification_rules[k], tl) = SpecScore(k, tl)
                  /\ Score(classification_rules[k], tl) \in 0..100
            /\ confidence[r][1] \in 0..100

\* five matches: 1.25 capped at 1.0, in upper-case text
C16_Witness ==
    /\ Classified("r1")
    /\ text["r1"] # lower(text["r1"])
    /\ TotalMatches(1, lower(text["r1"])) = 5
    /\ confidence["r1"] = Some(100)

\* C17: among the categories that share the maximum score the one declared
\* earliest is selected: no category declared before the selected one has
\* the same score, none has a greater one.
C17_TieEarliest ==
    \A r \in Runs : Classified(r) =>
        LET tl == lower(text[r])
            sel == best_type(tl)
        IN  /\ \A k \in RuleIds : SpecScore(k, tl) <= SpecScore(sel, tl)
            /\ \A k \in RuleIds : SpecScore(k, tl) = SpecScore(sel, tl) => sel <= k
            /\ doc_type[r][1] # "unknown" => doc_type[r][1] = classification_rules[sel].doc_type
            /\ <<"capital_call", "distribution", "valuation", "quarterly_update">>
                  = [k \in RuleIds |-> classification_rules[k].doc_type]

\* distribution and valuation tie at 0.5 above capital_call: distribution
C17_Witness ==
    /\ Classified("r1")
    /\ SpecScore(1, lower(text["r1"])) = 25
    /\ SpecScore(2, lower(text["r1"])) = 50
    /\ SpecScore(3, lower(text["r1"])) = 50
    /\ doc_type["r1"] = Some("distribution")

\* C18: two or more matches of capital_call patterns and none of another
\* category give capital_call with at least 0.5; likewise for distribution.
C18_TwoMatches ==
    \A r \in Runs : Classified(r) =>
        LET tl == lower(text[r])
        IN  \A k \in {RuleOf("capital_call"), RuleOf("distribution")} :
                (/\ TotalMatches(k, tl) >= 2
                 /\ \A j \in RuleIds \ {k} : TotalMatches(j, tl) = 0)
                => /\ doc_type[r] = Some(classification_rules[k].doc_type)
                   /\ confidence[r][1] >= 50

\* the same pattern twice, nothing else: capital_call with 0.5
C18_Witness ==
    /\ Classified("r1")
    /\ text["r1"] = <<"CAPITAL", "CALL", "CAPITAL", "CALL">>
    /\ doc_type["r1"] = Some("capital_call")
    /\ confidence["r1"] = Some(50)


\* ------------------------------------------- field extraction on its own
\* the texts the extraction routines are applied to: up to MaxLexemes
\* lexemes, in any order
MaxLexemes == 2

ExtractLexemes ==
    { "memo", "call", "valuation",
      "$500,000", "$0", "$,", "USD 250000.50", "Amount: 1,500",
      "12/15/2023", "12/15/23", "13/40/2023", "October 15, 2023", "2023-10-15",
      "Fund ID: ABC-III", "Fund: ABC-III", "CAPITAL CALL NOTICE",
      "LP: LP-001", "Investor: INV-7",
      "Call Number: 3", "Call Number: 0", "Drawdown 2",
      "Discount Rate: 8.5%", "capital income" }

\* the capital-call notices of the extraction test: a title line and one
\* line each for fund, limited partner, amount, date and call number
NoticeTexts ==
    { <<"CAPITAL CALL NOTICE", f, l, a, d, n>> :
        f \in {"Fund: ABC-III", "Fund: AB12"},
        l \in {"LP: LP-001", "LP: LP-7"},
        a \in {"Call Amount: $500,000", "Call Amount: $1,500"},
        d \in {"Call Date: 10/15/2023", "Call Date: 12/15/23"},
        n \in {"Call Number: 5", "Call Number: 3"} }

ExtractTexts == SeqsUpTo(ExtractLexemes, MaxLexemes) \cup NoticeTexts

InitExtract ==
    /\ files \in [Docs -> ExtractTexts]
    /\ documents = [d \in Docs |-> NewDocument]
    /\ processing_logs = <<>>
    /\ capital_calls = <<>>
    /\ distributions = <<>>
    /\ valuations = <<>>
    /\ pc = [r \in Runs |-> "extract"]
    /\ document_id = [r \in Runs |-> "d1"]
    /\ text = [r \in Runs |-> <<>>]
    /\ doc_type = [r \in Runs |-> None]
    /\ confidence = [r \in Runs |-> None]
    /\ extracted_data = [r \in Runs |-> None]
    /\ exc = [r \in Runs |-> None]
    /\ calls = [r \in Runs |-> <<>>]

\* one extraction routine applied to the text of the file
Extracted(r, category, data) ==
    /\ pc[r] = "extract"
    /\ text' = [text EXCEPT ![r] = files[document_id[r]]]
    /\ doc_type' = [doc_type EXCEPT ![r] = Some(category)]
    /\ extracted_data' = [extracted_data EXCEPT ![r] = Some(data)]
    /\ Goto(r, "extracted")
    /\ UNCHANGED <<files, document_id, confidence, exc, calls>>
    /\ UNCHANGED store

\* line 284
ExtractCapitalCall(r) ==
    Extracted(r, "capital_call", extract_capital_call_fields(files[document_id[r]]))

\* line 288
ExtractDistribution(r) ==
    Extracted(r, "distribution", extract_distribution_fields(files[document_id[r]]))

\* line 292
ExtractValuation(r) ==
    Extracted(r, "valuation", extract_valuation_fields(files[document_id[r]]))

NextExtract ==
    \E r \in Runs :
        \/ ExtractCapitalCall(r)
        \/ ExtractDistribution(r)
        \/ ExtractValuation(r)

SpecExtract == InitExtract /\ [][NextExtract]_vars

\* ------------------------------------------------------------ observations
ExtractedAs(r, category) == pc[r] = "extracted" /\ doc_type[r] = Some(category)

\* no pattern of the family captures anything in the text
NoFundIdMatch(t) ==
    /\ \A i \in 1..Len(t) : \A k \in 1..3 : fund_id_group(k, t[i]) = None
    /\ \A i \in 1..Len(t) - 1 : letter_tail(t[i]) = None \/ ivx_head(t[i + 1]) = None
NoDateMatch(t) == \A i \in 1..Len(t) : \A k \in 1..3 : date_group(k, t[i]) = None
NoLpIdMatch(t) == \A i \in 1..Len(t) : \A k \in 1..3 : lp_id_group(k, t[i]) = None
NoAmountMatch(t) == \A i \in 1..Len(t) : \A k \in 1..3 : amount_group(k, t[i]) = None
NoCallNumberMatch(t) ==
    /\ \A i \in 1..Len(t) : \A k \in 1..3 : call_number_group(k, t[i]) = None
    /\ \A i \in 1..Len(t) - 1 : ~ends_call(t[i]) \/ lead_digits(t[i + 1]) = None

\* C19: every field of every field map is present and not None for every
\* text, discount_rate of a valuation excepted, and a capital-call field no
\* pattern matches carries its default: 'FUND-001', today, 'LP-001',
\* 100000.00, 'USD', 1.
C19_NeverAbsent ==
    \A r \in Runs : pc[r] = "extracted" =>
        LET data == extracted_data[r][1]
            t == text[r]
        IN  /\ ExtractedAs(r, "capital_call") =>
                /\ DOMAIN data = {"kind", "fund_id", "call_date", "lp_id", "call_amount",
                                  "currency", "call_number", "confidence"}
                /\ \A f \in {"fund_id", "call_date", "lp_id", "call_amount", "call_number"} :
                      data[f] # None
                /\ data.currency = "USD" /\ data.confidence = 80
                /\ NoFundIdMatch(t) => data.fund_id = Some("FUND-001")
                /\ NoDateMatch(t) => data.call_date = Some(today)
                /\ NoLpIdMatch(t) => data.lp_id = Some("LP-001")
                /\ NoAmountMatch(t) => data.call_amount = Some(10000000)
                /\ NoCallNumberMatch(t) => data.call_number = Some(1)
            /\ ExtractedAs(r, "distribution") =>
                /\ DOMAIN data = {"kind", "fund_id", "distribution_date", "lp_id",
                                  "distribution_amount", "distribution_type", "currency",
                                  "confidence"}
                /\ \A f \in {"fund_id", "distribution_date", "lp_id", "distribution_amount"} :
                      data[f] # None
                /\ data.distribution_type \in {"ROC", "CI"}
                /\ data.currency = "USD" /\ data.confidence = 80
            /\ ExtractedAs(r, "valuation") =>
                /\ DOMAIN data = {"kind", "valuation_date", "methodology", "discount_rate",
                                  "multiples", "final_valuation", "currency", "confidence"}
                /\ \A f \in {"valuation_date", "final_valuation"} : data[f] # None
                /\ data.methodology = "DCF Analysis"
                /\ data.currency = "USD" /\ data.confidence = 70

\* a capital-call map of a text in which no identifier, amount or number
\* matches and the month-name date is not read: all defaults
C19_Witness ==
    /\ ExtractedAs("r1", "capital_call")
    /\ text["r1"] = <<"memo", "October 15, 2023">>
    /\ extracted_data["r1"][1].fund_id = Some("FUND-001")
    /\ extracted_data["r1"][1].call_date = Some(today)
    /\ extracted_data["r1"][1].lp_id = Some("LP-001")
    /\ extracted_data["r1"][1].call_amount = Some(10000000)
    /\ extracted_data["r1"][1].call_number = Some(1)

\* C20 as stated: the distribution defaults are the capital-call defaults,
\* distribution_amount 100000.00 included.
C20_SameDefaults ==
    \A r \in Runs : ExtractedAs(r, "distribution") =>
        LET data == extracted_data[r][1]
            t == text[r]
        IN  /\ NoFundIdMatch(t) => data.fund_id = Some("FUND-001")
            /\ NoDateMatch(t) => data.distribution_date = Some(today)
            /\ NoLpIdMatch(t) => data.lp_id = Some("LP-001")
            /\ NoAmountMatch(t) => data.distribution_amount = Some(10000000)

\* C20 amended: fund_id, distribution_date and lp_id fall back to the
\* capital-call defaults, distribution_amount falls back to 50000.00.
C20_DistributionDefaults ==
    \A r \in Runs : ExtractedAs(r, "distribution") =>
        LET data == extracted_data[r][1]
            t == text[r]
        IN  /\ NoFundIdMatch(t) => data.fund_id = Some("FUND-001")
            /\ NoDateMatch(t) => data.distribution_date = Some(today)
            /\ NoLpIdMatch(t) => data.lp_id = Some("LP-001")
            /\ NoAmountMatch(t) => data.distribution_amount = Some(5000000)

\* a distribution map of a text without any amount
C20_Witness ==
    /\ ExtractedAs("r1", "distribution")
    /\ NoAmountMatch(text["r1"]) /\ NoFundIdMatch(text["r1"])
    /\ NoDateMatch(text["r1"]) /\ NoLpIdMatch(text["r1"])
    /\ extracted_data["r1"][1].distribution_amount = Some(5000000)
    /\ extracted_data["r1"][1].fund_id = Some("FUND-001")


\* what each line of a notice states
StatedFundId(w) == IF w = "Fund: ABC-III" THEN "ABC-III" ELSE "AB12"
StatedLpId(w) == IF w = "LP: LP-001" THEN "LP-001" ELSE "LP-7"
StatedAmount(w) == IF w = "Call Amount: $500,000" THEN 50000000 ELSE 150000
StatedDate(w) == IF w = "Call Date: 10/15/2023" THEN <<2023, 10, 15>> ELSE <<2023, 12, 15>>
StatedCallNumber(w) == IF w = "Call Number: 5" THEN 5 ELSE 3

\* C21: the capital-call field map of a notice carries the fund, limited
\* partner, amount, date and call number its lines state, with confidence
\* 0.8; the tested notice gives 'ABC-III', 'LP-001' and 500000.
C21_NoticeFields ==
    \A r \in Runs : (ExtractedAs(r, "capital_call") /\ text[r] \in NoticeTexts) =>
        LET data == extracted_data[r][1]
            t == text[r]
        IN  /\ data.fund_id = Some(StatedFundId(t[2]))
            /\ data.lp_id = Some(StatedLpId(t[3]))
            /\ data.call_amount = Some(StatedAmount(t[4]))
            /\ data.call_date = Some(StatedDate(t[5]))
            /\ data.call_number = Some(StatedCallNumber(t[6]))
            /\ data.confidence = 80


\* the lexemes of t in which some date pattern captures something
DateLexemes(t) == {i \in 1..Len(t) : \E k \in 1..3 : date_group(k, t[i]) # None}

\* w is the only date written in t
OnlyDate(t, w) == DateLexemes(t) # {} /\ \A i \in DateLexemes(t) : t[i] = w

\* the calendar date a lexeme writes
WrittenDate(w) ==
    CASE w \in {"12/15/2023", "12/15/23", "Call Date: 12/15/23"} -> <<2023, 12, 15>>
      [] w \in {"October 15, 2023", "2023-10-15", "Call Date: 10/15/2023"} -> <<2023, 10, 15>>

\* C22: a text whose only date is written in numeric, month-name or
\* year-first form gets that calendar date, in each of the three forms.
C22_ThreeShapes ==
    \A r \in Runs : ExtractedAs(r, "capital_call") =>
        \A w \in {"12/15/2023", "October 15, 2023", "2023-10-15"} :
            OnlyDate(text[r], w) =>
                extracted_data[r][1].call_date = Some(WrittenDate(w))

\* C23: a numeric slash date a/b/c is month a, day b, year c, and a
\* two-digit year yy is 20yy: 12/15/2023 and 12/15/23 both give 2023-12-15.
C23_MonthDayYear ==
    \A r \in Runs : ExtractedAs(r, "capital_call") =>
        \A w \in {"12/15/2023", "12/15/23", "Call Date: 10/15/2023", "Call Date: 12/15/23"} :
            OnlyDate(text[r], w) =>
                /\ extract_date(text[r]) = Some(WrittenDate(w))
                /\ extracted_data[r][1].call_date = Some(WrittenDate(w))

\* the two-digit year read as 2023
C23_Witness ==
    /\ ExtractedAs("r1", "capital_call")
    /\ text["r1"] = <<"Call Number: 3", "12/15/23">>
    /\ extracted_data["r1"][1].call_date = Some(<<2023, 12, 15>>)

\* C24 as stated: an out-of-range numeric date is not rejected: the date
\* field is not the fallback.
C24_NotRejected ==
    \A r \in Runs : (ExtractedAs(r, "capital_call") /\ OnlyDate(text[r], "13/40/2023")) =>
            /\ extract_date(text[r]) # None
            /\ extracted_data[r][1].call_date # Some(today)

\* C24 amended: an out-of-range numeric date is rejected by the date
\* constructor, the error is swallowed, extract_date returns None and the
\* date field of the record is today.
C24_RejectedSilently ==
    \A r \in Runs : (pc[r] = "extracted" /\ OnlyDate(text[r], "13/40/2023")) =>
            /\ extract_date(text[r]) = None
            /\ ExtractedAs(r, "capital_call") => extracted_data[r][1].call_date = Some(today)
            /\ ExtractedAs(r, "distribution") => extracted_data[r][1].distribution_date = Some(today)
            /\ ExtractedAs(r, "valuation") => extracted_data[r][1].valuation_date = Some(today)

\* month 13, day 40: the call date is today
C24_Witness ==
    /\ ExtractedAs("r1", "capital_call")
    /\ text["r1"] = <<"13/40/2023">>
    /\ extracted_data["r1"][1].call_date = Some(today)


\* the call run r makes in this step, when it is a status write that
\* succeeds
StatusWritten(r) ==
    /\ Len(calls'[r]) = Len(calls[r]) + 1
    /\ calls'[r][Len(calls'[r])].op = "update_document_status"
    /\ calls'[r][Len(calls'[r])].ok

\* run r has made a status write that succeeded
WroteStatus(r) ==
    \E i \in 1..Len(calls[r]) :
        calls[r][i].ok /\ calls[r][i].op = "update_document_status"

\* C25: with two runs of "d1" interleaved the stored status is
\* last-writer-wins: every status write that succeeds, the classification
\* write's "processing" included, replaces whatever the other run has
\* written, the status changes by nothing but such a write or a reprocess
\* request, and once both runs have ended the status is the one the last
\* writer left (a run's last status write that succeeded, or the reprocess
\* request's "processing" when the second run wrote none), so "d1" can end
\* failed while it holds the record of the run that completed.
C25_LastWriterWins ==
    /\ []((\A r \in RerunRuns : Finished(r))
            => documents["d1"].processing_status
                  \in {LastStatusOf(r) : r \in {q \in RerunRuns : WroteStatus(q)}}
                       \cup (IF WroteStatus("r2") THEN {} ELSE {"processing"}))
    /\ [][/\ \A r \in RerunRuns :
                StatusWritten(r)
                  => documents'["d1"].processing_status
                        = calls'[r][Len(calls'[r])].a
          /\ documents'["d1"].processing_status # documents["d1"].processing_status
                => \E r \in RerunRuns :
                      \/ StatusWritten(r)
                      \/ pc[r] = "idle" /\ pc'[r] # "idle"]_vars

\* both runs have ended, one completed and stored its record, the other
\* wrote failed last: the document is failed and holds a record
C25_Witness ==
    /\ \A r \in RerunRuns : Finished(r)
    /\ \E r, q \in RerunRuns :
          /\ r # q
          /\ ExtractableSuccess(r)
          /\ LastStatusOf(r) = "completed"
          /\ LastStatusOf(q) = "failed"
    /\ documents["d1"].processing_status = "failed"
    /\ Len(DocRecords("d1")) >= 1


\* C26: a run never writes both a 'complete' and an 'error' log entry, a
\* 'complete' or 'error' entry is the last entry and the last store call of
\* the run, and the run appends at most five log entries, whichever store
\* call fails.
C26_OneEndingEntry ==
    \A r \in DOMAIN pc :
        LET logs == DocLogs(document_id[r])
            st == StagesOf(logs)
        IN  /\ CountStage(logs, "complete") + CountStage(logs, "error") <= 1
            /\ Len(st) <= 5
            /\ \A i \in 1..Len(st) : st[i] \in {"complete", "error"} => i = Len(st)
            /\ \A i \in 1..Len(calls[r]) :
                  (/\ calls[r][i].ok
                   /\ calls[r][i].op = "log_processing_step"
                   /\ calls[r][i].a \in {"complete", "error"})
                     => i = Len(calls[r]) /\ Finished(r)

\* the 'complete' log write failed after four entries, and the handler
\* wrote the 'error' entry as the fifth
C26_Witness ==
    \E r \in DOMAIN pc :
        /\ pc[r] = "returned"
        /\ StagesOf(DocLogs(document_id[r]))
              = <<"start", "text_extraction", "classification",
                  "field_extraction", "error">>
        /\ \E i \in 1..Len(calls[r]) :
              /\ ~calls[r][i].ok
              /\ calls[r][i].op = "log_processing_step"
              /\ calls[r][i].a = "complete"


\* the rows of the table that holds the records of a category
RecordsOfKind(category) ==
    CASE category = "capital_call" -> capital_calls
      [] category = "distribution" -> distributions
      [] category = "valuation" -> valuations

\* C27: in a single run the record write precedes the field_extraction log
\* entry and the status write to completed: a field_extraction entry or a
\* completed write of a run classified capital_call, distribution or
\* valuation comes after that run's create call of the matching kind, and
\* while the status is completed with such a category a record of the
\* matching kind exists for the document.
C27_RecordBeforeCompleted ==
    \A r \in DOMAIN pc :
        LET d == document_id[r]
        IN  /\ \A i \in 1..Len(calls[r]) :
                  (/\ calls[r][i].ok
                   /\ doc_type[r] # None
                   /\ doc_type[r][1] \in ExtractionBranches
                   /\ \/ /\ calls[r][i].op = "log_processing_step"
                         /\ calls[r][i].a = "field_extraction"
                      \/ /\ calls[r][i].op = "update_document_status"
                         /\ calls[r][i].a = "completed")
                     => \E j \in 1..(i - 1) :
                           /\ calls[r][j].ok
                           /\ calls[r][j].op = CreateOpOf(doc_type[r][1])[1]
            /\ (/\ documents[d].processing_status = "completed"
                /\ documents[d].document_type # None
                /\ documents[d].document_type[1] \in ExtractionBranches)
                  => \E i \in 1..Len(RecordsOfKind(documents[d].document_type[1])) :
                        RecordsOfKind(documents[d].document_type[1])[i].document_id = d

\* a distribution run has written completed, its record stored two calls
\* earlier
C27_Witness ==
    \E r \in DOMAIN pc :
        /\ pc[r] = "log_complete"
        /\ documents[document_id[r]].processing_status = "completed"
        /\ documents[document_id[r]].document_type = Some("distribution")
        /\ Len(distributions) = 1
        /\ distributions[1].document_id = document_id[r]


\* C28: a failure of the 'start' log write or of the status write to
\* processing goes to the handler like any later failure: the next call of
\* the run is the status write to failed and, when that succeeds, the one
\* after it the 'error' log write; a run that returns after such a failure
\* leaves status failed with the 'error' entry last, and no 'start' entry
\* when it was the 'start' write that failed.
C28_StepOneHandled ==
    \A r \in DOMAIN pc :
        LET f == FirstFailed(r)
            logs == DocLogs(document_id[r])
        IN  f \in {1, 2} =>
              /\ pc[r] # "except_status" =>
                    /\ Len(calls[r]) > f
                    /\ calls[r][f + 1].op = "update_document_status"
                    /\ calls[r][f + 1].a = "failed"
              /\ (pc[r] \notin {"except_status", "except_log"} /\ calls[r][f + 1].ok) =>
                    /\ Len(calls[r]) = f + 2
                    /\ calls[r][f + 2].op = "log_processing_step"
                    /\ calls[r][f + 2].a = "error"
              /\ pc[r] = "returned" =>
                    /\ documents[document_id[r]].processing_status = "failed"
                    /\ Len(logs) = f
                    /\ logs[Len(logs)].stage = "error"
                    /\ f = 1 => CountStage(logs, "start") = 0

\* the 'start' log write failed and the handler ran: status failed, one
\* 'error' entry, no 'start' entry
C28_Witness ==
    \E r \in DOMAIN pc :
        /\ pc[r] = "returned"
        /\ ~calls[r][1].ok
        /\ calls[r][1].a = "start"
        /\ documents[document_id[r]].processing_status = "failed"
        /\ StagesOf(DocLogs(document_id[r])) = <<"error">>


\* C29: the confidence classify returns is one of 0.0, 0.5, 0.75, 1.0: a
\* text whose best category has a single match (score 0.25) comes back as
\* (unknown, 0.0), and no confidence lies strictly between 0 and 0.5.
C29_ConfidenceValues ==
    \A r \in Runs : Classified(r) =>
        /\ confidence[r][1] \in {0, 50, 75, 100}
        /\ ~(0 < confidence[r][1] /\ confidence[r][1] < 50)
        /\ MaxSpecScore(lower(text[r])) = 25
              => doc_type[r] = Some("unknown") /\ confidence[r] = Some(0)

\* a text with one match of one pattern was classified (unknown, 0.0)
C29_Witness ==
    /\ Classified("r1")
    /\ MaxSpecScore(lower(text["r1"])) = 25
    /\ doc_type["r1"] = Some("unknown")
    /\ confidence["r1"] = Some(0)


\* the first lexeme of the text in which the k-th pattern of the family
\* captures something, None if there is none
FirstCapture(family, k, t) ==
    LET I == {i \in 1..Len(t) : pattern_group(family, k, t[i]) # None}
    IN  IF I = {} THEN None ELSE Some(t[CHOOSE i \in I : \A j \in I : i <= j])

\* C30: a matched value of zero counts as unmatched in the assembly of the
\* field map: when the first amount the text gives is '$0' the call_amount is
\* 100000.00 and the final_valuation 1000000.00, a first 'Call Number: 0'
\* gives call_number 1, and call_amount, final_valuation and call_number are
\* never 0.
C30_ZeroIsDefault ==
    \A r \in Runs :
        /\ ExtractedAs(r, "capital_call") =>
              /\ extracted_data[r][1].call_amount # Some(0)
              /\ extracted_data[r][1].call_number # Some(0)
              /\ FirstCapture("amount", 1, text[r]) = Some("$0")
                    => extracted_data[r][1].call_amount = Some(10000000)
              /\ FirstCapture("call_number", 1, text[r]) = Some("Call Number: 0")
                    => extracted_data[r][1].call_number = Some(1)
        /\ ExtractedAs(r, "valuation") =>
              /\ extracted_data[r][1].final_valuation # Some(0)
              /\ FirstCapture("amount", 1, text[r]) = Some("$0")
                    => extracted_data[r][1].final_valuation = Some(100000000)

\* a capital-call text giving '$0' and call number 0 was extracted with the
\* defaults
C30_Witness ==
    /\ ExtractedAs("r1", "capital_call")
    /\ text["r1"] = <<"$0", "Call Number: 0">>
    /\ extracted_data["r1"][1].call_amount = Some(10000000)
    /\ extracted_data["r1"][1].call_number = Some(1)

====
